---- MODULE Spec2Model ----
(***************************************************************************)
(* disposable-redis: a supervisor of throwaway redis-server processes.     *)
(*                                                                         *)
(* The model has caller goroutines (Threads) that call the package's       *)
(* functions, one exit-watcher goroutine per Server (started by run()),    *)
(* and the operating system's view of every spawned process.               *)
(*                                                                         *)
(* srv[s]  a Server object and the process of its cmd                      *)
(*   alloc    free | building (inside NewServer) | failed (NewServer       *)
(*            returned nil, err) | held (returned to a caller inside the   *)
(*            package) | returned (handed to the user) | dropped           *)
(*            (NewSlaveOf gave it up on an error path)                     *)
(*   port, running   the fields of Server                                  *)
(*   proc     unstarted | startfail | starting | listening | zombie |      *)
(*            reaped : the process of cmd                                  *)
(*   sig      a SIGKILL was sent and the process has not exited yet        *)
(*   status   how the process exited, until cmd.Wait() has reported it:    *)
(*            ok (exit status 0) | fail (any other status, or a signal)    *)
(*   wpc      none | wait | send | done : the goroutine of run()           *)
(*            (send: cmd.Wait() has returned)                              *)
(*   slaveof  the master port the process was told to replicate, 0 if none *)
(* th[t]   a caller goroutine: pc, the stack of return labels, locals      *)
(*   reply    an INFO reply as a sequence of tokens: a byte, or the two    *)
(*            bytes \r\n (CRLF)                                            *)
(*   info     the map Info has built of it, as a set of <<key, value>>     *)
(***************************************************************************)
EXTENDS Integers, Sequences, FiniteSets, TLC

VARIABLES srv, th

vars == <<srv, th>>

\* ------------------------------------------------------------- bounds
MaxServers == 2
MaxTimeoutPolls == 2
MaxReplyLen == 6

\* ---------------------------------------------------------- constants
MaxRetries == 10
SyncPolls == 100
SlaveReadyTimeout == 100
ReadyPollInterval == 5
MinPort == 1025
RandPortSpan == 64510
MaxPort == 65535

NoServer == 0
NoPort == 0

Servers == 1..MaxServers
Threads == {"main"}

\* the conversion uint16(x) of an int32
Uint16(x) == x % (MaxPort + 1)

\* rand.Int31n(n) returns a value in [0, n); the model draws the two ends
Int31n(n) == {0, n - 1}

\* a variant of Ports: a random value drawn from [0, 0xffff]
Ports_M == {Uint16(x + MinPort) : x \in Int31n(MaxPort + 1)}

\* port := uint16(rand.Int31n(0xffff-1025) + 1025)
Ports == {Uint16(x + MinPort) : x \in Int31n(RandPortSpan)}

\* timeouts a caller hands to WaitReady, in milliseconds
Timeouts == {k * ReadyPollInterval : k \in 0..MaxTimeoutPolls}

InitServer ==
  [alloc |-> "free", port |-> NoPort, running |-> FALSE, proc |-> "unstarted",
   sig |-> FALSE, status |-> "", wpc |-> "none", slaveof |-> NoPort]

InitThread ==
  [pc |-> "idle", stk |-> <<>>, cur |-> NoServer, i |-> 0, n |-> 0,
   err |-> "nil", ret |-> "nil", rerr |-> "nil", rsrv |-> NoServer,
   rlink |-> "", tleft |-> 0, conn |-> NoServer, mport |-> NoPort,
   mst |-> NoServer, path |-> "", op |-> "", reply |-> <<>>, info |-> {}]

Init ==
  /\ srv = [s \in Servers |-> InitServer]
  /\ th = [t \in Threads |-> InitThread]

\* ------------------------------------------------------------ helpers
Alive(s) == srv[s].proc \in {"starting", "listening"}

\* the processes accepting connections on localhost:p
Listener(p) == {s \in Servers : srv[s].proc = "listening" /\ srv[s].port = p}

\* memory of a Server object: one that no caller references any more and
\* whose process is gone is garbage, and its memory is free again (its
\* goroutine, if it has not ended yet, has nothing left to do but fall through
\* its select and return: no run() receives from its channel any more)
Collect(r) ==
  IF /\ r.alloc \in {"failed", "dropped"}
     /\ r.proc \in {"startfail", "reaped"}
    THEN InitServer
    ELSE r

Reusable(s) == srv[s].alloc = "free"

HasFresh == \E s \in Servers : Reusable(s)

Fresh == CHOOSE s \in Servers : Reusable(s) /\ \A u \in Servers : Reusable(u) => s <= u

\* return from the function on top of the stack: to the user (label "top",
\* pc "done" shows the call, its receiver, the returned values and the return
\* path taken), or to the calling function's continuation
Return(r, opname, rs, re, path) ==
  IF Head(r.stk) = "top"
    THEN [InitThread EXCEPT !.pc = "done", !.op = opname, !.path = path,
                            !.rsrv = rs, !.rerr = re, !.rlink = r.rlink,
                            !.cur = r.cur, !.mst = r.mst, !.n = r.n]
    ELSE [r EXCEPT !.pc = Head(r.stk), !.stk = Tail(r.stk), !.rsrv = rs, !.rerr = re]

\* the user has taken the returned values
Finish(t) ==
  /\ th[t].pc = "done"
  /\ th' = [th EXCEPT ![t] = InitThread]
  /\ UNCHANGED srv

\* --------------------------------------------------- the spawned process
\* redis-server binds its port: it listens, or exits when the port is taken
\* (a process with a SIGKILL pending runs no more of its code)
ProcListen(s) ==
  /\ srv[s].proc = "starting"
  /\ ~srv[s].sig
  /\ IF Listener(srv[s].port) = {}
       THEN srv' = [srv EXCEPT ![s].proc = "listening"]
       ELSE srv' = [srv EXCEPT ![s].proc = "zombie", ![s].status = "fail"]
  /\ UNCHANGED th

\* the process exits: of the SIGKILL, or on its own with any exit status
ProcExit(s) ==
  /\ Alive(s)
  /\ \E st \in (IF srv[s].sig THEN {"fail"} ELSE {"ok", "fail"}) :
       srv' = [srv EXCEPT ![s].proc = "zombie", ![s].sig = FALSE, ![s].status = st,
                          ![s].slaveof = NoPort]
  /\ UNCHANGED th

\* ------------------------------------------------------------ NewServer
\* cmd := exec.Command(...); r := &Server{cmd, port, running: false};
\* r.run(): ret := r.cmd.Start(); ch := make(chan error); go func() {...}()
\* by the caller whose other locals are in r
NewServerBody(t, r, p, retlabel) ==
  /\ HasFresh
  /\ \E ok \in BOOLEAN :
       /\ srv' = [srv EXCEPT ![Fresh] =
                    [InitServer EXCEPT !.alloc = "building", !.port = p, !.wpc = "wait",
                                       !.proc = IF ok THEN "starting" ELSE "startfail"]]
       /\ th' = [th EXCEPT ![t] = [r EXCEPT !.pc = "run_presel", !.cur = Fresh,
                                            !.ret = IF ok THEN "nil" ELSE "StartErr",
                                            !.stk = <<retlabel>> \o r.stk]]

NewServerCall(t) ==
  /\ th[t].pc = "idle"
  /\ \E p \in Ports : NewServerBody(t, th[t], p, "top")

\* run() reaches its select and blocks on <-ch and the grace timer
RunSelect(t) ==
  /\ th[t].pc = "run_presel"
  /\ th' = [th EXCEPT ![t].pc = "run_select"]
  /\ UNCHANGED srv

\* a variant of RunTimeout: a run() that gives up on the timer and returns an
\* error although the process may be alive
RunTimeout_M(t) ==
  /\ th[t].pc = "run_select"
  /\ th' = [th EXCEPT ![t].pc = "ns_ret", ![t].rerr = "LaunchTimeout", ![t].ret = "nil"]
  /\ UNCHANGED srv

\* case <-time.After(LaunchWaitTimeout): break; return ret
RunTimeout(t) ==
  /\ th[t].pc = "run_select"
  /\ th' = [th EXCEPT ![t].pc = "ns_ret", ![t].rerr = th[t].ret, ![t].ret = "nil"]
  /\ UNCHANGED srv

\* the goroutine's err := r.cmd.Wait(): returns at once when the process was
\* never started, else blocks until the process has exited and reaps it
WatcherWait(s) ==
  /\ srv[s].wpc = "wait"
  /\ srv[s].proc \in {"startfail", "zombie", "reaped"}
  /\ srv' = [srv EXCEPT ![s] = Collect([srv[s] EXCEPT !.wpc = "send",
                        !.proc = IF srv[s].proc = "zombie" THEN "reaped" ELSE srv[s].proc])]
  /\ UNCHANGED th

\* the err of the goroutine's cmd.Wait(): "exec: not started", or by the exit
\* status of the process nil (status 0) or an *ExitError
WaitResult(s) ==
  IF srv[s].proc = "startfail" THEN "NotStarted"
  ELSE IF srv[s].status = "ok" THEN "nil"
  ELSE "ExitError"

\* the run() that is blocked in its select on the channel of Server s
Receiver(s) == {t \in Threads : th[t].pc = "run_select" /\ th[t].cur = s}

\* a variant of WatcherSend: a plain ch <- err, which waits for a receiver
WatcherSend_M(s) ==
  /\ srv[s].wpc = "send"
  /\ Receiver(s) # {}
  /\ srv' = [srv EXCEPT ![s] = Collect([srv[s] EXCEPT !.wpc = "done", !.status = ""])]
  /\ \E t \in Receiver(s) :
       th' = [th EXCEPT ![t].pc = "ns_ret", ![t].rerr = WaitResult(s), ![t].ret = "nil"]

\* the goroutine's select { case ch <- err: default: } on the unbuffered ch:
\* the send happens only when run() is already receiving (then run() takes
\* case e := <-ch and returns e), otherwise the default branch drops err
WatcherSend(s) ==
  /\ srv[s].wpc = "send"
  /\ srv' = [srv EXCEPT ![s] = Collect([srv[s] EXCEPT !.wpc = "done", !.status = ""])]
  /\ IF Receiver(s) # {}
       THEN \E t \in Receiver(s) :
              th' = [th EXCEPT ![t].pc = "ns_ret", ![t].rerr = WaitResult(s), ![t].ret = "nil"]
       ELSE UNCHANGED th

\* err := r.run(); if err != nil { return nil, err }; r.running = true; return r, nil
NewServerRet(t) ==
  /\ th[t].pc = "ns_ret"
  /\ LET s == th[t].cur
         top == Head(th[t].stk) = "top"
     IN IF th[t].rerr # "nil"
          THEN /\ srv' = [srv EXCEPT ![s] = Collect([srv[s] EXCEPT !.alloc = "failed"])]
               /\ th' = [th EXCEPT ![t] = Return([th[t] EXCEPT !.cur = NoServer],
                                                  "NewServer", NoServer, th[t].rerr, "error")]
          ELSE /\ srv' = [srv EXCEPT ![s].running = TRUE,
                                     ![s].alloc = IF top THEN "returned" ELSE "held"]
               /\ th' = [th EXCEPT ![t] = Return([th[t] EXCEPT !.cur = NoServer],
                                                  "NewServer", s, "nil", "ok")]

\* -------------------------------------------------- NewServerRandomPort
\* var err error; for i := 0; ...: the first port := ...; r, err = NewServer(port)
NewServerRandomPortCall(t) ==
  /\ th[t].pc = "idle"
  /\ \E p \in Ports :
       NewServerBody(t, [th[t] EXCEPT !.stk = <<"top">>, !.i = 0, !.err = "nil"], p, "nsrp_chk")

\* a variant of RandomPortCheck: a loop that keeps the error of the attempt
\* before the last one and returns that
RandomPortCheckStale_M(t) ==
  /\ th[t].pc = "nsrp_chk"
  /\ LET s == th[t].rsrv
         top == Head(th[t].stk) = "top"
     IN IF th[t].rerr = "nil"
          THEN /\ srv' = [srv EXCEPT ![s].alloc = IF top THEN "returned" ELSE "held"]
               /\ th' = [th EXCEPT ![t] = Return([th[t] EXCEPT !.i = 0, !.err = "nil"],
                                                  "NewServerRandomPort", s, "nil", "ok")]
          ELSE IF th[t].i + 1 < MaxRetries
            THEN \E p \in Ports :
                   NewServerBody(t, [th[t] EXCEPT !.i = th[t].i + 1, !.err = th[t].rerr,
                                                  !.rerr = "nil", !.rsrv = NoServer],
                                 p, "nsrp_chk")
            ELSE /\ th' = [th EXCEPT ![t] = Return([th[t] EXCEPT !.i = 0, !.err = "nil"],
                                                    "NewServerRandomPort", NoServer,
                                                    th[t].err, "exhausted")]
                 /\ UNCHANGED srv

\* a variant of RandomPortCheck: a loop that runs while i <= MaxRetries
RandomPortCheck_M(t) ==
  /\ th[t].pc = "nsrp_chk"
  /\ LET s == th[t].rsrv
         top == Head(th[t].stk) = "top"
     IN IF th[t].rerr = "nil"
          THEN /\ srv' = [srv EXCEPT ![s].alloc = IF top THEN "returned" ELSE "held"]
               /\ th' = [th EXCEPT ![t] = Return([th[t] EXCEPT !.i = 0, !.err = "nil"],
                                                  "NewServerRandomPort", s, "nil", "ok")]
          ELSE IF th[t].i + 1 <= MaxRetries
            THEN \E p \in Ports :
                   NewServerBody(t, [th[t] EXCEPT !.i = th[t].i + 1, !.err = th[t].rerr,
                                                  !.rerr = "nil", !.rsrv = NoServer],
                                 p, "nsrp_chk")
            ELSE /\ th' = [th EXCEPT ![t] = Return([th[t] EXCEPT !.i = 0, !.err = "nil"],
                                                    "NewServerRandomPort", NoServer,
                                                    th[t].rerr, "exhausted")]
                 /\ UNCHANGED srv

\* NewServer has returned r, err: if err == nil { return r, nil }; i++;
\* if i < MaxRetries the next r, err = NewServer(port), else return nil, err
RandomPortCheck(t) ==
  /\ th[t].pc = "nsrp_chk"
  /\ LET s == th[t].rsrv
         top == Head(th[t].stk) = "top"
     IN IF th[t].rerr = "nil"
          THEN /\ srv' = [srv EXCEPT ![s].alloc = IF top THEN "returned" ELSE "held"]
               /\ th' = [th EXCEPT ![t] = Return([th[t] EXCEPT !.i = 0, !.err = "nil"],
                                                  "NewServerRandomPort", s, "nil", "ok")]
          ELSE IF th[t].i + 1 < MaxRetries
            THEN \E p \in Ports :
                   NewServerBody(t, [th[t] EXCEPT !.i = th[t].i + 1, !.err = th[t].rerr,
                                                  !.rerr = "nil", !.rsrv = NoServer],
                                 p, "nsrp_chk")
            ELSE /\ th' = [th EXCEPT ![t] = Return([th[t] EXCEPT !.i = 0, !.err = "nil"],
                                                    "NewServerRandomPort", NoServer,
                                                    th[t].rerr, "exhausted")]
                 /\ UNCHANGED srv

\* ------------------------------------------------------------ WaitReady
WaitReadyCall(t) ==
  /\ th[t].pc = "idle"
  /\ \E s \in Servers, d \in Timeouts :
       /\ srv[s].alloc = "returned"
       /\ th' = [th EXCEPT ![t].pc = "wr_loop", ![t].stk = <<"top">>, ![t].cur = s,
                           ![t].tleft = d, ![t].err = "nil"]
  /\ UNCHANGED srv

\* one turn of for time.Now().Before(deadline) { conn, e := redigo.Dial(...)
\* tleft is the time left to the deadline; a failed Dial is followed by a
\* sleep of 5ms or more
WaitReadyPoll(t) ==
  /\ th[t].pc = "wr_loop"
  /\ UNCHANGED srv
  /\ IF th[t].tleft <= 0
       THEN th' = [th EXCEPT ![t] = Return([th[t] EXCEPT !.tleft = 0, !.err = "nil"],
                                           "WaitReady", NoServer, th[t].err, "deadline")]
       ELSE IF Listener(srv[th[t].cur].port) # {}
         THEN th' = [th EXCEPT ![t] = Return([th[t] EXCEPT !.tleft = 0, !.err = "nil"],
                                             "WaitReady", NoServer, "nil", "connected")]
         ELSE \E d \in {ReadyPollInterval, th[t].tleft} :
                th' = [th EXCEPT ![t].err = "DialErr", ![t].tleft = th[t].tleft - d]

\* ----------------------------------------------------------------- Stop
StopCall(t) ==
  /\ th[t].pc = "idle"
  /\ \E s \in Servers :
       /\ srv[s].alloc = "returned"
       /\ th' = [th EXCEPT ![t].pc = "stop_chk", ![t].stk = <<"top">>, ![t].cur = s]
  /\ UNCHANGED srv

\* a variant of StopCheck: a Stop that leaves the running flag set
StopCheck_M(t) ==
  /\ th[t].pc = "stop_chk"
  /\ IF ~srv[th[t].cur].running
       THEN /\ th' = [th EXCEPT ![t] = Return(th[t], "Stop", NoServer, "nil", "noop")]
            /\ UNCHANGED srv
       ELSE /\ th' = [th EXCEPT ![t].pc = "stop_kill"]
            /\ UNCHANGED srv

\* if !r.running { return nil }; r.running = false
StopCheck(t) ==
  /\ th[t].pc = "stop_chk"
  /\ IF ~srv[th[t].cur].running
       THEN /\ th' = [th EXCEPT ![t] = Return(th[t], "Stop", NoServer, "nil", "noop")]
            /\ UNCHANGED srv
       ELSE /\ srv' = [srv EXCEPT ![th[t].cur].running = FALSE]
            /\ th' = [th EXCEPT ![t].pc = "stop_kill"]

\* a variant of StopKill: a Stop that takes the instance for running again
\* when Kill has failed
StopKill_M(t) ==
  /\ th[t].pc = "stop_kill"
  /\ LET s == th[t].cur
     IN IF srv[s].proc = "reaped"
          THEN /\ th' = [th EXCEPT ![t] = Return(th[t], "Stop", NoServer, "ProcessDone", "killerr")]
               /\ srv' = [srv EXCEPT ![s].running = TRUE]
          ELSE /\ srv' = [srv EXCEPT ![s].sig = Alive(s)]
               /\ th' = [th EXCEPT ![t].pc = "stop_wait"]

\* if err := r.cmd.Process.Kill(); err != nil { return err }
\* Kill fails with "os: process already finished" once the process was reaped
StopKill(t) ==
  /\ th[t].pc = "stop_kill"
  /\ LET s == th[t].cur
     IN IF srv[s].proc = "reaped"
          THEN /\ th' = [th EXCEPT ![t] = Return(th[t], "Stop", NoServer, "ProcessDone", "killerr")]
               /\ UNCHANGED srv
          ELSE /\ srv' = [srv EXCEPT ![s].sig = Alive(s)]
               /\ th' = [th EXCEPT ![t].pc = "stop_wait"]

\* r.cmd.Wait(); return nil. This is the second Wait on the cmd, the goroutine
\* of run() being in the first: it fails at once with "exec: Wait was already
\* called", or (the two calls race on the cmd) waits for the exit as well
StopWait(t) ==
  /\ th[t].pc = "stop_wait"
  /\ LET s == th[t].cur
     IN \/ /\ th' = [th EXCEPT ![t] = Return(th[t], "Stop", NoServer, "nil", "killed")]
           /\ UNCHANGED srv
        \/ /\ srv[s].proc \in {"zombie", "reaped"}
           /\ srv' = [srv EXCEPT ![s] = Collect([srv[s] EXCEPT !.proc = "reaped"])]
           /\ th' = [th EXCEPT ![t] = Return(th[t], "Stop", NoServer, "nil", "waited")]

\* ----------------------------------------------------------- NewSlaveOf
\* srv, err := NewServerRandomPort()   (r is a copy of the master's Server)
NewSlaveOfCall(t) ==
  /\ th[t].pc = "idle"
  /\ \E m \in Servers, p \in Ports :
       /\ srv[m].alloc = "returned"
       /\ NewServerBody(t, [th[t] EXCEPT !.stk = <<"so_created", "top">>, !.i = 0,
                                         !.err = "nil", !.mst = m, !.mport = srv[m].port],
                        p, "nsrp_chk")

\* if err != nil { return nil, err }; srv.WaitReady(100 * time.Millisecond)
SlaveCreated(t) ==
  /\ th[t].pc = "so_created"
  /\ UNCHANGED srv
  /\ IF th[t].rerr # "nil"
       THEN th' = [th EXCEPT ![t] = Return(th[t], "NewSlaveOf", NoServer, th[t].rerr, "create")]
       ELSE th' = [th EXCEPT ![t].pc = "wr_loop", ![t].stk = <<"so_ready">> \o th[t].stk,
                             ![t].cur = th[t].rsrv, ![t].rsrv = NoServer,
                             ![t].tleft = SlaveReadyTimeout, ![t].err = "nil"]

\* a variant of SlaveFail: an error path that stops the receiver r, the
\* master, instead of srv
SlaveFail_M(r, e, path) ==
  [r EXCEPT !.pc = "stop_chk", !.stk = <<"so_failed">> \o r.stk, !.err = e,
            !.path = path, !.rerr = "nil", !.rlink = "", !.conn = NoServer, !.n = 0,
            !.cur = r.mst]

\* an error path of NewSlaveOf: defer srv.Stop(); return nil, err
SlaveFail(r, e, path) ==
  [r EXCEPT !.pc = "stop_chk", !.stk = <<"so_failed">> \o r.stk, !.err = e,
            !.path = path, !.rerr = "nil", !.rlink = "", !.conn = NoServer, !.n = 0]

\* if err = srv.WaitReady(...); err != nil { defer srv.Stop(); return nil, err }
\* conn, e := redigo.Dial("tcp", srv.Addr()); if e != nil { defer srv.Stop(); ... }
SlaveReady(t) ==
  /\ th[t].pc = "so_ready"
  /\ UNCHANGED srv
  /\ IF th[t].rerr # "nil"
       THEN th' = [th EXCEPT ![t] = SlaveFail(th[t], th[t].rerr, "waitready")]
       ELSE IF Listener(srv[th[t].cur].port) = {}
         THEN th' = [th EXCEPT ![t] = SlaveFail(th[t], "DialErr", "dial")]
         ELSE \E c \in Listener(srv[th[t].cur].port) :
                th' = [th EXCEPT ![t].pc = "so_slaveof", ![t].conn = c]

\* a variant of SlaveLoop: a loop that ends in the error path when its polls
\* are used up
SlaveLoop_M(t, r, k, srv1) ==
  IF k < SyncPolls
    THEN /\ srv' = srv1
         /\ th' = [th EXCEPT ![t] = [r EXCEPT !.pc = "info_dial", !.stk = <<"so_polled">> \o r.stk,
                                              !.n = k, !.conn = NoServer, !.rerr = "nil"]]
    ELSE /\ srv' = srv1
         /\ th' = [th EXCEPT ![t] = SlaveFail(r, "SyncTimeout", "timeout")]

\* the head of for i := 0; i < 100; i++ { info, err := srv.Info() ...
\* with i = k, by the caller r (r.rlink is the linkStatus of the poll before):
\* the next Info call, or after the loop return srv, nil
SlaveLoop(t, r, k, srv1) ==
  IF k < SyncPolls
    THEN /\ srv' = srv1
         /\ th' = [th EXCEPT ![t] = [r EXCEPT !.pc = "info_dial", !.stk = <<"so_polled">> \o r.stk,
                                              !.n = k, !.conn = NoServer, !.rerr = "nil"]]
    ELSE /\ srv' = [srv1 EXCEPT ![r.cur].alloc = "returned"]
         /\ th' = [th EXCEPT ![t] = Return([r EXCEPT !.n = k, !.conn = NoServer, !.rlink = ""],
                                            "NewSlaveOf", r.cur, "nil", "exhausted")]

\* _, err = conn.Do("SLAVEOF", "127.0.0.1", r.Port())
\* if err != nil { defer srv.Stop(); return nil, err }; the loop starts, i = 0
SlaveDirective(t) ==
  /\ th[t].pc = "so_slaveof"
  /\ IF srv[th[t].conn].proc # "listening"
       THEN /\ th' = [th EXCEPT ![t] = SlaveFail(th[t], "DoErr", "slaveof")]
            /\ UNCHANGED srv
       ELSE SlaveLoop(t, th[t], 0, [srv EXCEPT ![th[t].conn].slaveof = th[t].mport])

\* a variant of SlavePolled: a loop without the break on "up"
SlavePolled_M(t, r, e, link) ==
  IF e # "nil"
    THEN /\ th' = [th EXCEPT ![t] = SlaveFail(r, e, "info")]
         /\ UNCHANGED srv
    ELSE SlaveLoop(t, [r EXCEPT !.rlink = link], r.n + 1, srv)

\* srv.Info() has returned (link, e) to the loop of the caller r:
\* if err != nil { defer srv.Stop(); return nil, err }
\* if info["master_link_status"] == "up" { break }; time.Sleep(50ms); i++
SlavePolled(t, r, e, link) ==
  IF e # "nil"
    THEN /\ th' = [th EXCEPT ![t] = SlaveFail(r, e, "info")]
         /\ UNCHANGED srv
    ELSE IF link = "up"
      THEN /\ srv' = [srv EXCEPT ![r.cur].alloc = "returned"]
           /\ th' = [th EXCEPT ![t] = Return([r EXCEPT !.conn = NoServer, !.rlink = "", !.n = 0],
                                              "NewSlaveOf", r.cur, "nil", "synced")]
      ELSE SlaveLoop(t, [r EXCEPT !.rlink = link], r.n + 1, srv)

\* the deferred srv.Stop() has returned; NewSlaveOf returns nil, err and the
\* new Server is referenced no more
SlaveFailed(t) ==
  /\ th[t].pc = "so_failed"
  /\ srv' = [srv EXCEPT ![th[t].cur] = Collect([srv[th[t].cur] EXCEPT !.alloc = "dropped"])]
  /\ th' = [th EXCEPT ![t] = Return(th[t], "NewSlaveOf", NoServer, th[t].err, th[t].path)]

\* ----------------------------------------------------------------- Info
\* the master_link_status line of the INFO reply of the process c
LinkStatus(c) ==
  IF srv[c].slaveof = NoPort THEN {""}
  ELSE IF Listener(srv[c].slaveof) # {} THEN {"up", "down"}
  ELSE {"down"}

InfoCall(t) ==
  /\ th[t].pc = "idle"
  /\ \E s \in Servers :
       /\ srv[s].alloc = "returned"
       /\ th' = [th EXCEPT ![t].pc = "info_dial", ![t].stk = <<"top">>, ![t].cur = s]
  /\ UNCHANGED srv

\* Info returns (the link status of its map, e): to the user, or into the
\* loop of NewSlaveOf
InfoReturn(t, e, link, path) ==
  IF Head(th[t].stk) = "top"
    THEN /\ th' = [th EXCEPT ![t] = Return([th[t] EXCEPT !.rlink = link, !.conn = NoServer],
                                            "Info", NoServer, e, path)]
         /\ UNCHANGED srv
    ELSE SlavePolled(t, [th[t] EXCEPT !.pc = Head(th[t].stk), !.stk = Tail(th[t].stk)], e, link)

\* conn, e := redigo.Dial("tcp", r.Addr()); if e != nil { return nil, e }
InfoDial(t) ==
  /\ th[t].pc = "info_dial"
  /\ IF Listener(srv[th[t].cur].port) = {}
       THEN InfoReturn(t, "DialErr", "", "dial")
       ELSE /\ \E c \in Listener(srv[th[t].cur].port) :
                 th' = [th EXCEPT ![t].pc = "info_do", ![t].conn = c]
            /\ UNCHANGED srv

\* info, err := redigo.String(conn.Do("INFO")); if err != nil { return nil, err }
\* the reply parsed into ret; return ret, nil
InfoDo(t) ==
  /\ th[t].pc = "info_do"
  /\ IF srv[th[t].conn].proc # "listening"
       THEN InfoReturn(t, "DoErr", "", "do")
       ELSE \E l \in LinkStatus(th[t].conn) : InfoReturn(t, "nil", l, "ok")

\* -------------------------------------------------------- Info parsing
\* the tokens of a reply: letters, the key/value separator, the comment mark
\* and the line separator
Tokens == {"a", "b", ":", "#", "CRLF"}

RECURSIVE SeqsUpTo(_, _)
SeqsUpTo(S, n) ==
  IF n = 0 THEN {<<>>}
  ELSE LET shorter == SeqsUpTo(S, n - 1)
       IN shorter \cup {Append(q, x) : q \in {r \in shorter : Len(r) = n - 1}, x \in S}

Replies == SeqsUpTo(Tokens, MaxReplyLen)

\* strings.Split(str, sep) for a separator of one token, cur being the piece
\* read so far: the pieces between the separators, one more than separators
RECURSIVE SplitFrom(_, _, _)
SplitFrom(str, sep, cur) ==
  IF str = <<>> THEN <<cur>>
  ELSE IF Head(str) = sep THEN <<cur>> \o SplitFrom(Tail(str), sep, <<>>)
  ELSE SplitFrom(Tail(str), sep, Append(cur, Head(str)))

Split(str, sep) == SplitFrom(str, sep, <<>>)

\* a variant of AddLine: a loop body that takes the first two pieces of any
\* line with a ':' in it
AddLine_M(ret, line) ==
  IF Len(line) = 0 \/ line[1] = "#" THEN ret
  ELSE LET kv == Split(line, ":")
       IN IF Len(kv) >= 2
            THEN {p \in ret : p[1] # kv[1]} \cup {<<kv[1], kv[2]>>}
            ELSE ret

\* the body of for _, line := range lines: if len(line) == 0 || line[0] == '#'
\* { continue }; kv := strings.Split(line, ":"); if len(kv) == 2 {
\* ret[kv[0]] = kv[1] }   (an assignment to a key replaces its value)
AddLine(ret, line) ==
  IF Len(line) = 0 \/ line[1] = "#" THEN ret
  ELSE LET kv == Split(line, ":")
       IN IF Len(kv) = 2
            THEN {p \in ret : p[1] # kv[1]} \cup {<<kv[1], kv[2]>>}
            ELSE ret

RECURSIVE ParseLines(_, _)
ParseLines(lines, ret) ==
  IF lines = <<>> THEN ret
  ELSE ParseLines(Tail(lines), AddLine(ret, Head(lines)))

\* ret := make(map[string]string); lines := strings.Split(info, "\r\n"); the loop
ParseInfo(reply) == ParseLines(Split(reply, "CRLF"), {})

\* Info has its reply and parses it: return ret, nil
InfoParse(t) ==
  /\ th[t].pc = "info_parse"
  /\ th' = [th EXCEPT ![t].pc = "done", ![t].op = "Info", ![t].path = "ok",
                      ![t].rerr = "nil", ![t].info = ParseInfo(th[t].reply)]
  /\ UNCHANGED srv

\* ------------------------------------------------------- specifications
Process ==
  \E s \in Servers : ProcListen(s) \/ ProcExit(s) \/ WatcherWait(s) \/ WatcherSend(s)

Launch(t) ==
  RunSelect(t) \/ RunTimeout(t) \/ NewServerRet(t)

\* a user of NewServer, WaitReady, Info and Stop
NextLife ==
  \/ Process
  \/ \E t \in Threads :
       \/ Finish(t) \/ NewServerCall(t) \/ Launch(t)
       \/ WaitReadyCall(t) \/ WaitReadyPoll(t)
       \/ StopCall(t) \/ StopCheck(t) \/ StopKill(t) \/ StopWait(t)
       \/ InfoCall(t) \/ InfoDial(t) \/ InfoDo(t)

SpecLife == Init /\ [][NextLife]_vars

\* a user of NewServerRandomPort
NextRetry ==
  \/ Process
  \/ \E t \in Threads :
       \/ Finish(t) \/ Launch(t)
       \/ NewServerRandomPortCall(t) \/ RandomPortCheck(t)

SpecRetry == Init /\ [][NextRetry]_vars


\* the first call of TestServerNewSlaveOf: master, err := NewServerRandomPort()
MasterCall(t) ==
  /\ \A s \in Servers : srv[s].alloc # "returned"
  /\ NewServerRandomPortCall(t)

\* a user that calls NewServerRandomPort until it has an instance
NextFirst ==
  \/ Process
  \/ \E t \in Threads :
       \/ Finish(t) \/ Launch(t)
       \/ MasterCall(t) \/ RandomPortCheck(t)

SpecFirst == Init /\ [][NextFirst]_vars

\* the same user under a fair scheduler: a goroutine that can run does run,
\* the grace timer fires, cmd.Wait() returns once the process has exited
SpecFirstFair ==
  /\ SpecFirst
  /\ \A t \in Threads : WF_vars(Launch(t) \/ RandomPortCheck(t))
  /\ \A s \in Servers : WF_vars(WatcherWait(s)) /\ WF_vars(WatcherSend(s))

\* its second call: slave, err := master.NewSlaveOf()
ReplicaCall(t) ==
  /\ Cardinality({s \in Servers : srv[s].alloc = "returned"}) = 1
  /\ NewSlaveOfCall(t)

\* a user that creates a master and joins a replica to it, as the test does
NextSlave ==
  \/ Process
  \/ \E t \in Threads :
       \/ Finish(t) \/ Launch(t)
       \/ MasterCall(t) \/ RandomPortCheck(t)
       \/ WaitReadyPoll(t) \/ StopCheck(t) \/ StopKill(t) \/ StopWait(t)
       \/ InfoDial(t) \/ InfoDo(t)
       \/ ReplicaCall(t) \/ SlaveCreated(t) \/ SlaveReady(t) \/ SlaveDirective(t)
       \/ SlaveFailed(t)

SpecSlave == Init /\ [][NextSlave]_vars

\* slave, err := master.NewSlaveOf() when the master is the only Server that
\* is left of the calls before
JoinCall(t) ==
  /\ \A s \in Servers : srv[s].alloc \in {"free", "returned"}
  /\ ReplicaCall(t)

\* the steps of a caller inside NewSlaveOf and the functions it calls
JoinStep(t) ==
  \/ Launch(t) \/ RandomPortCheck(t)
  \/ WaitReadyPoll(t) \/ StopCheck(t) \/ StopKill(t) \/ StopWait(t)
  \/ InfoDial(t) \/ InfoDo(t)
  \/ SlaveCreated(t) \/ SlaveReady(t) \/ SlaveDirective(t) \/ SlaveFailed(t)

\* a user that creates a master and joins one replica at a time to it
NextJoin ==
  \/ Process
  \/ \E t \in Threads : Finish(t) \/ MasterCall(t) \/ JoinCall(t) \/ JoinStep(t)

SpecJoin == Init /\ [][NextJoin]_vars

\* the same user under a fair scheduler: the caller's goroutine runs, timers
\* fire, sleeps end, Dial and Do return
SpecJoinFair ==
  /\ SpecJoin
  /\ \A t \in Threads : WF_vars(JoinStep(t))

\* Info on any reply conn.Do("INFO") can hand it
InitParse ==
  /\ srv = [s \in Servers |-> InitServer]
  /\ th \in [Threads -> {[InitThread EXCEPT !.pc = "info_parse", !.reply = r] : r \in Replies}]

NextParse == \E t \in Threads : InfoParse(t)

SpecParse == InitParse /\ [][NextParse]_vars

\* every call in any order
Next == NextLife \/ NextRetry \/ NextFirst \/ NextSlave \/ NextJoin \/ NextParse

Spec == Init /\ [][Next]_vars

\* --------------------------------------------------------------- claims
\* C1: early-exit detection. Whenever run() leaves its select for a process
\* that has already exited (with any exit status, reaped by the goroutine or
\* not yet), run() returns an error, so NewServer returns (nil, error).
C1_EarlyExitIsAnError ==
  [][\A t \in Threads :
       (/\ th[t].pc = "run_select"
        /\ th'[t].pc = "ns_ret"
        /\ srv[th[t].cur].proc \in {"zombie", "reaped"})
       => th'[t].rerr # "nil"]_vars

\* C2: a failed creation leaves no running process behind. When NewServer is
\* about to return an error, the process it spawned never started or has been
\* reaped; and in every state every process that is alive belongs to a Server
\* that is being built or was returned, never to one of a failed attempt.
C2_FailedCreateLeavesNoProcess ==
  /\ \A t \in Threads :
       (th[t].pc = "ns_ret" /\ th[t].rerr # "nil")
       => srv[th[t].cur].proc \in {"startfail", "reaped"}
  /\ \A s \in Servers :
       Alive(s) => srv[s].alloc \in {"building", "held", "returned"}

\* NewServerRandomPort has returned an error after MaxRetries attempts, the
\* last of which spawned a process that exited during the grace period
C2_Witness ==
  \E t \in Threads :
    /\ th[t].pc = "done"
    /\ th[t].op = "NewServerRandomPort"
    /\ th[t].path = "exhausted"
    /\ th[t].rerr = "ExitError"

\* C3: no leak on a failed replica join. When NewSlaveOf returns an error
\* after the new instance was created (WaitReady, dial, SLAVEOF or Info
\* failed), Stop has been run on the new instance and its process is dead.
C3_FailedJoinLeavesNoProcess ==
  \A t \in Threads :
    (/\ th[t].pc = "done"
     /\ th[t].op = "NewSlaveOf"
     /\ th[t].rerr # "nil"
     /\ th[t].path \in {"waitready", "dial", "slaveof", "info"})
    => (~srv[th[t].cur].running /\ ~Alive(th[t].cur))

\* C4: Stop is idempotent. A Stop that finds running = false returns nil in
\* that very step and changes no Server (no signal, no wait); and whenever a
\* Stop has returned, the running flag of its Server is false, so that every
\* later Stop on it is such a no-op.
C4_StopIdempotent ==
  /\ [][\A t \in Threads :
         (/\ th[t].pc = "stop_chk"
          /\ ~srv[th[t].cur].running
          /\ th'[t] # th[t])
         => (/\ srv' = srv
             /\ th'[t].pc = "done"
             /\ th'[t].op = "Stop"
             /\ th'[t].rerr = "nil")]_vars
  /\ [](\A t \in Threads :
         (th[t].pc = "done" /\ th[t].op = "Stop") => ~srv[th[t].cur].running)

\* a Stop on an instance that was stopped before has returned
C4_Witness ==
  \E t \in Threads :
    /\ th[t].pc = "done"
    /\ th[t].op = "Stop"
    /\ th[t].path = "noop"
    /\ th[t].rerr = "nil"

\* C5: when Stop returns on a running instance (it passed the running check
\* and went on to Kill), with or without an error, the process of the instance
\* has exited and has been reaped.
C5_StopWaitsForExit ==
  [][\A t \in Threads :
       (th[t].pc \in {"stop_kill", "stop_wait"} /\ th'[t].pc = "done")
       => srv'[th[t].cur].proc = "reaped"]_vars

\* C6: port exclusivity. No Server is returned running on a port on which the
\* process of another returned, running Server is listening.
C6_PortExclusive ==
  \A s1, s2 \in Servers :
    (/\ s1 # s2
     /\ srv[s1].alloc = "returned" /\ srv[s2].alloc = "returned"
     /\ srv[s1].running /\ srv[s2].running
     /\ srv[s1].port = srv[s2].port)
    => srv[s1].proc # "listening"

\* C7: WaitReady returns nil only in a turn in which a connection to the
\* port of the instance succeeds; with nothing listening it returns an error,
\* whatever the timeout.
C7_WaitReadyNilOnlyAfterConnect ==
  [][\A t \in Threads :
       (/\ th[t].pc = "wr_loop"
        /\ th'[t].pc = "done"
        /\ th'[t].op = "WaitReady"
        /\ th'[t].rerr = "nil")
       => Listener(srv[th[t].cur].port) # {}]_vars

\* C8: Stop treats an already-dead process as success. When Stop has passed
\* the running check and the process has exited and was reaped by the
\* goroutine of run(), Stop returns nil.
C8_StopOfDeadProcessIsNil ==
  [][\A t \in Threads :
       (/\ th[t].pc = "stop_kill"
        /\ srv[th[t].cur].proc = "reaped"
        /\ th'[t] # th[t])
       => (th'[t].pc = "done" /\ th'[t].rerr = "nil")]_vars

\* C9: failure isolation of the join. When the connect step of NewSlaveOf
\* has failed, NewSlaveOf returns an error and the new instance is fully
\* stopped: its running flag is false and its process is gone.
C9_FailedConnectStopsReplica ==
  \A t \in Threads :
    (th[t].pc = "done" /\ th[t].op = "NewSlaveOf" /\ th[t].path = "dial")
    => (/\ th[t].rerr # "nil"
        /\ th[t].rsrv = NoServer
        /\ ~srv[th[t].cur].running
        /\ ~Alive(th[t].cur))

\* C10: budget exhaustion is not an error. When the last of the SyncPolls
\* polls succeeds and cannot report "up", NewSlaveOf returns the new instance
\* with a nil error, its running flag set and its process untouched.
C10_ExhaustionIsNotAnError ==
  [][\A t \in Threads :
       (/\ th[t].pc = "info_do"
        /\ Head(th[t].stk) = "so_polled"
        /\ th[t].n = SyncPolls - 1
        /\ srv[th[t].conn].proc = "listening"
        /\ "up" \notin LinkStatus(th[t].conn)
        /\ th'[t] # th[t])
       => (/\ th'[t].pc = "done"
           /\ th'[t].op = "NewSlaveOf"
           /\ th'[t].rerr = "nil"
           /\ th'[t].rsrv = th[t].cur
           /\ srv'[th[t].cur].running
           /\ srv'[th[t].cur].alloc = "returned"
           /\ srv'[th[t].cur].proc = srv[th[t].cur].proc
           /\ srv'[th[t].cur].sig = srv[th[t].cur].sig)]_vars

\* NewSlaveOf has returned after SyncPolls polls, none of which said "up"
C10_Witness ==
  \E t \in Threads :
    /\ th[t].pc = "done"
    /\ th[t].op = "NewSlaveOf"
    /\ th[t].n = SyncPolls
    /\ th[t].rerr = "nil"
    /\ srv[th[t].rsrv].running

\* C11: bounded retry of NewServerRandomPort. The attempt index stays below
\* MaxRetries; a launch attempt starts only at the call (index 0) or after a
\* failed attempt (index + 1) and spawns exactly one process, and no other
\* step of the call spawns one; after a successful attempt the call returns
\* that very instance at once; and every call, once begun, returns.
C11_BoundedRetry ==
  /\ [](\A t \in Threads : th[t].i < MaxRetries)
  /\ [][\A t \in Threads :
         LET attempt == th'[t].pc = "run_presel" /\ th[t].pc # "run_presel"
             spawned == {s \in Servers : srv[s].alloc = "free" /\ srv'[s].alloc = "building"}
         IN /\ attempt =>
                 /\ th[t].pc \in {"idle", "nsrp_chk"}
                 /\ th[t].pc = "idle" => th'[t].i = 0
                 /\ th[t].pc = "nsrp_chk" => (th[t].rerr # "nil" /\ th'[t].i = th[t].i + 1)
                 /\ Cardinality(spawned) = 1
            /\ ~attempt => spawned = {}
            /\ (th[t].pc = "nsrp_chk" /\ th[t].rerr = "nil" /\ th'[t] # th[t]) =>
                 /\ th'[t].pc = "done"
                 /\ th'[t].rerr = "nil"
                 /\ th'[t].rsrv = th[t].rsrv]_vars
  /\ \A t \in Threads : (th[t].pc = "run_presel") ~> (th[t].pc = "done")

\* nine attempts of a NewServerRandomPort call have failed and the last one
\* allowed, the tenth, has succeeded: the call is about to return its instance
C11_Witness ==
  \E t \in Threads :
    /\ th[t].pc = "nsrp_chk"
    /\ th[t].rerr = "nil"
    /\ th[t].i = MaxRetries - 1

\* C12: when the last attempt of NewServerRandomPort (index MaxRetries - 1)
\* has failed, the call returns no Server and the error of that attempt.
C12_LastErrorReturned ==
  [][\A t \in Threads :
       (/\ th[t].pc = "nsrp_chk"
        /\ th[t].rerr # "nil"
        /\ th[t].i = MaxRetries - 1
        /\ th'[t] # th[t])
       => (/\ th'[t].pc = "done"
           /\ th'[t].op = "NewServerRandomPort"
           /\ th'[t].rsrv = NoServer
           /\ th'[t].rerr = th[t].rerr)]_vars

\* all attempts have failed, the last one of another error than the one
\* before it, and NewServerRandomPort is at its return
C12_Witness ==
  \E t \in Threads :
    /\ th[t].pc = "nsrp_chk"
    /\ th[t].i = MaxRetries - 1
    /\ th[t].rerr = "ExitError"
    /\ th[t].err = "StartErr"

\* C13: the running flag only moves forward. It becomes true only in
\* NewServer, on the Server being built, after run() returned nil; it becomes
\* false only in the running check of a Stop on that Server; and a Server
\* that was handed out and has running = false keeps it false for ever.
C13_RunningMovesForward ==
  [][\A s \in Servers :
       /\ (~srv[s].running /\ srv'[s].running) =>
            /\ srv[s].alloc = "building"
            /\ \E t \in Threads :
                 th[t].pc = "ns_ret" /\ th[t].cur = s /\ th[t].rerr = "nil"
       /\ (srv[s].running /\ ~srv'[s].running) =>
            \E t \in Threads : th[t].pc = "stop_chk" /\ th[t].cur = s
       /\ (srv[s].alloc \in {"held", "returned", "dropped"} /\ ~srv[s].running) =>
            ~srv'[s].running]_vars

\* a Stop on a running instance has returned, after NewServer had set the
\* flag and Stop has cleared it
C13_Witness ==
  \E t \in Threads :
    /\ th[t].pc = "done"
    /\ th[t].op = "Stop"
    /\ th[t].path \in {"killed", "waited", "killerr"}
    /\ srv[th[t].cur].alloc = "returned"
    /\ ~srv[th[t].cur].running

\* C14: the exit-watcher never blocks or leaks. A goroutine whose cmd.Wait()
\* has returned can always take its next step, with or without a run()
\* receiving on the channel; and once the process has exited, the goroutine
\* of its Server ends.
C14_WatcherEnds ==
  /\ [](\A s \in Servers : srv[s].wpc = "send" => ENABLED WatcherSend(s))
  /\ \A s \in Servers :
       (srv[s].proc \in {"zombie", "reaped"} /\ srv[s].wpc \in {"wait", "send"})
       ~> (srv[s].wpc \in {"done", "none"})

\* the process of a returned Server has exited after run() had returned on
\* the timer, and the goroutine has ended with nobody receiving its result
C14_Witness ==
  \E s \in Servers :
    /\ srv[s].alloc = "returned"
    /\ srv[s].running
    /\ srv[s].proc = "reaped"
    /\ srv[s].wpc = "done"
    /\ \A t \in Threads : th[t].pc = "idle"

\* C15: every Server that NewServerRandomPort builds or returns has a port
\* in [1025, 65535]: the uint16 conversion of the random value never wraps.
C15_RandomPortInRange ==
  /\ \A s \in Servers :
       srv[s].alloc # "free" => (MinPort <= srv[s].port /\ srv[s].port <= MaxPort)
  /\ \A t \in Threads :
       (th[t].pc = "done" /\ th[t].op = "NewServerRandomPort" /\ th[t].rerr = "nil")
       => (MinPort <= srv[th[t].rsrv].port /\ srv[th[t].rsrv].port <= MaxPort)

\* NewServerRandomPort has returned a Server on the port of the largest
\* value the random source produces
C15_Witness ==
  \E t \in Threads :
    /\ th[t].pc = "done"
    /\ th[t].op = "NewServerRandomPort"
    /\ th[t].rerr = "nil"
    /\ srv[th[t].rsrv].port = Uint16(RandPortSpan - 1 + MinPort)

\* the lines of a reply that count: non-empty, not starting with '#', with
\* exactly one ':'; and the pair such a line stands for
Colons(line) == {i \in 1..Len(line) : line[i] = ":"}

WellFormed(line) ==
  Len(line) > 0 /\ line[1] # "#" /\ Cardinality(Colons(line)) = 1

PairOf(line) ==
  LET i == CHOOSE j \in Colons(line) : TRUE
  IN <<SubSeq(line, 1, i - 1), SubSeq(line, i + 1, Len(line))>>

\* C16 as stated: the map Info returns holds exactly the pairs of the
\* well-formed lines of the reply, and Info returns no error.
C16_InfoHoldsEveryPair ==
  \A t \in Threads :
    (th[t].pc = "done" /\ th[t].op = "Info") =>
      LET lines == Split(th[t].reply, "CRLF")
      IN /\ th[t].rerr = "nil"
         /\ th[t].info = {PairOf(lines[i]) : i \in {j \in 1..Len(lines) : WellFormed(lines[j])}}

\* C16 amended: the map Info returns holds exactly, for every key of a
\* well-formed line, the pair of the last well-formed line with that key;
\* the other lines contribute nothing, and Info returns no error.
C16_InfoHoldsLastPairPerKey ==
  \A t \in Threads :
    (th[t].pc = "done" /\ th[t].op = "Info") =>
      LET lines == Split(th[t].reply, "CRLF")
          good == {j \in 1..Len(lines) : WellFormed(lines[j])}
          last == {i \in good : \A j \in good :
                     PairOf(lines[j])[1] = PairOf(lines[i])[1] => j <= i}
      IN /\ th[t].rerr = "nil"
         /\ th[t].info = {PairOf(lines[i]) : i \in last}

\* Info has parsed a reply with a blank line, a comment line, a line with two
\* ':' and a well-formed line, and its map is not empty
C16_Witness ==
  \E t \in Threads :
    /\ th[t].pc = "done"
    /\ th[t].op = "Info"
    /\ th[t].info # {}
    /\ LET lines == Split(th[t].reply, "CRLF")
       IN /\ \E i \in 1..Len(lines) : lines[i] = <<>>
          /\ \E i \in 1..Len(lines) : lines[i] # <<>> /\ lines[i][1] = "#"
          /\ \E i \in 1..Len(lines) : WellFormed(lines[i])

\* C17: ordering of the replica join. A process is told SLAVEOF only by a
\* NewSlaveOf whose WaitReady has succeeded, and it is the process of the new
\* instance, never the master, and is told the master's port; the directive
\* is reached only from a successful WaitReady; polling starts only after a
\* successful SLAVEOF; a Server is returned only by a successful poll.
C17_JoinOrder ==
  [][/\ \A c \in Servers :
          (srv'[c].slaveof # srv[c].slaveof /\ srv'[c].slaveof # NoPort) =>
            \E t \in Threads :
              /\ th[t].pc = "so_slaveof"
              /\ c = th[t].cur
              /\ c # th[t].mst
              /\ srv'[c].slaveof = srv[th[t].mst].port
     /\ \A t \in Threads :
          /\ (th'[t].pc = "so_slaveof" /\ th[t].pc # "so_slaveof") =>
               (th[t].pc = "so_ready" /\ th[t].rerr = "nil")
          /\ (th'[t].pc = "info_dial" /\ th[t].pc # "info_dial"
                 /\ Head(th'[t].stk) = "so_polled") =>
               \/ th[t].pc = "info_do"
               \/ /\ th[t].pc = "so_slaveof"
                  /\ srv'[th[t].conn].slaveof = th[t].mport
          /\ (th'[t].pc = "done" /\ th[t].pc # "done" /\ th'[t].op = "NewSlaveOf"
                 /\ th'[t].rerr = "nil") =>
               (th[t].pc = "info_do" /\ srv[th[t].conn].proc = "listening")]_vars

\* C18: the convergence polling of NewSlaveOf is bounded and stops early.
\* The index of the Info query under way stays below SyncPolls; a further
\* query is issued only after a query that succeeded and did not report
\* "up", with the index one higher; a query that fails ends the polling in
\* the error path; and the polling, once begun, ends with the call returning.
InPoll(t) ==
  th[t].pc \in {"info_dial", "info_do"} /\ Head(th[t].stk) = "so_polled"

C18_PollingBoundedAndStopsEarly ==
  /\ [](\A t \in Threads : InPoll(t) => th[t].n < SyncPolls)
  /\ [][\A t \in Threads :
         /\ (InPoll(t) /\ th'[t].pc = "info_dial" /\ th[t].pc = "info_do") =>
              /\ srv[th[t].conn].proc = "listening"
              /\ th'[t].rlink # "up"
              /\ th'[t].n = th[t].n + 1
         /\ (InPoll(t) /\ th'[t] # th[t] /\ th[t].pc = "info_dial"
                /\ Listener(srv[th[t].cur].port) = {}) =>
              (th'[t].pc = "stop_chk" /\ th'[t].err # "nil")
         /\ (InPoll(t) /\ th'[t] # th[t] /\ th[t].pc = "info_do"
                /\ srv[th[t].conn].proc # "listening") =>
              (th'[t].pc = "stop_chk" /\ th'[t].err # "nil")]_vars
  /\ \A t \in Threads : InPoll(t) ~> (th[t].pc = "done")

\* NewSlaveOf has returned the replica by the break on "up", before its
\* polls were used up
C18_Witness ==
  \E t \in Threads :
    /\ th[t].pc = "done"
    /\ th[t].op = "NewSlaveOf"
    /\ th[t].path = "synced"
    /\ th[t].rerr = "nil"
    /\ th[t].n < SyncPolls

\* a Server and its process but for what the process was told to replicate
\* (every join changes the replication state inside the redis processes)
Frame(r) == [r EXCEPT !.slaveof = NoPort]

\* C19: frame. The port of a Server never changes while the Server exists; a
\* step of a call changes no Server and kills, reaps or starts no process but
\* the one it works on; a step of NewSlaveOf, on its way to success or to
\* any failure, leaves the master's port, running flag and process as they
\* are; and WaitReady and Info change no port and no running flag.
C19_Frame ==
  [][/\ \A s \in Servers :
          (srv[s].alloc # "free" /\ srv'[s].alloc # "free") => srv'[s].port = srv[s].port
     /\ \A t \in Threads :
          /\ th'[t] # th[t] =>
               \A s \in Servers :
                 (srv[s].alloc # "free" /\ s # th[t].cur /\ s # th[t].rsrv)
                 => Frame(srv'[s]) = Frame(srv[s])
          /\ (th'[t] # th[t] /\ th[t].mst # NoServer) =>
               Frame(srv'[th[t].mst]) = Frame(srv[th[t].mst])
          /\ (th'[t] # th[t] /\ th[t].pc \in {"wr_loop", "info_dial", "info_do"}) =>
               \A s \in Servers :
                 srv'[s].port = srv[s].port /\ srv'[s].running = srv[s].running]_vars

\* NewSlaveOf has returned by a failure path that ran Stop on the new
\* instance, and the master is running and listening as before
C19_Witness ==
  \E t \in Threads :
    /\ th[t].pc = "done"
    /\ th[t].op = "NewSlaveOf"
    /\ th[t].rerr # "nil"
    /\ th[t].path \in {"waitready", "dial", "slaveof", "info"}
    /\ srv[th[t].mst].alloc = "returned"
    /\ srv[th[t].mst].running
    /\ srv[th[t].mst].proc = "listening"

\* C20: the exit result is never lost. When the goroutine, its cmd.Wait()
\* returned, runs its select while the run() of its Server has not yet taken
\* the timeout branch, run() receives the result and returns it: the send
\* never falls through to the default branch.
C20_HandoffNeverLost ==
  [][\A s \in Servers : \A t \in Threads :
       (/\ srv[s].wpc = "send"
        /\ srv'[s].wpc # "send"
        /\ th[t].cur = s
        /\ th[t].pc \in {"run_presel", "run_select"})
       => (th'[t].pc = "ns_ret" /\ th'[t].rerr = WaitResult(s))]_vars
====
